---------------------------- MODULE Spec2Model ----------------------------
(***************************************************************************)
(* Model of package typedregexp (typedregexp.go): Compile / MustCompile    *)
(* turn a template and a struct of sub-patterns into a TypedRegexp, Find   *)
(* and FindAll fill structs from the submatches of that regexp.            *)
(*                                                                         *)
(* Go strings are sequences of one-character strings, "" is <<>>.  Go      *)
(* slices are sequences: Go index i is index i+1 here.  A pattern or a     *)
(* template is a sequence of lexemes [k, v]:                               *)
(*   lit   v    the literal character v                                    *)
(*   rep   v    a repeated class: "d+" is \d+, "d*" is \d*, "w+" is \w+    *)
(*   open  v    "(" when v = "", "(?P<v>" otherwise                        *)
(*   close      ")"                                                        *)
(*   alt        "|"                                                        *)
(*   quest      "?"                                                        *)
(*   ref   v    the template action {{.v}}                                 *)
(*   bad        a malformed template action such as "{{.Name}"             *)
(* No pattern of the model puts a repetition directly after another one.   *)
(***************************************************************************)
EXTENDS Integers, Sequences, FiniteSets, TLC

\* ------------------------------------------------------------------ bounds
MaxInputLen == 3

MaxSlice == 2

\* ----------------------------------------------------------------- lexemes
Lit(c) == [k |-> "lit", v |-> c]

Rep(c) == [k |-> "rep", v |-> c]

Open(name) == [k |-> "open", v |-> name]

Close == [k |-> "close", v |-> ""]

Alt == [k |-> "alt", v |-> ""]

Quest == [k |-> "quest", v |-> ""]

Ref(name) == [k |-> "ref", v |-> name]

Bad == [k |-> "bad", v |-> ""]

Min(a, b) == IF a < b THEN a ELSE b

\* The characters input strings are made of, and the classes \d and \w.
Alphabet == {"a", "1", "-"}

Digits == {"1"}

WordChars == {"a", "1"}

ClassOf(c) == IF c \in {"d+", "d*"} THEN Digits ELSE WordChars

\* ---------------------------------------------- regexp.Compile (the parser)
\* A frame of the parser's stack: the alternatives closed so far and the
\* concatenation being read, for the group numbered cap and named name.
NewFrame(cap, name) == [alts |-> <<>>, cur |-> <<>>, cap |-> cap, name |-> name]

CatNode(subs) == [op |-> "cat", subs |-> subs, c |-> "", cap |-> 0]

AltNode(subs) == [op |-> "alt", subs |-> subs, c |-> "", cap |-> 0]

FrameNode(f) == AltNode(Append(f.alts, CatNode(f.cur)))

ReplaceTop(stack, f) == [stack EXCEPT ![Len(stack)] = f]

PushCur(stack, node) ==
    LET top == stack[Len(stack)]
    IN ReplaceTop(stack, [top EXCEPT !.cur = Append(top.cur, node)])

ParseError(msg) == [ok |-> FALSE, err |-> msg, node |-> CatNode(<<>>), names |-> <<>>]

RECURSIVE ParseFrom(_, _, _, _)
ParseFrom(toks, i, stack, names) ==
    IF i > Len(toks)
    THEN IF Len(stack) > 1
         THEN ParseError("missing closing )")
         ELSE [ok |-> TRUE, err |-> "", node |-> FrameNode(stack[1]), names |-> names]
    ELSE LET tok == toks[i]
             top == stack[Len(stack)]
         IN CASE tok.k = "lit" ->
                   ParseFrom(toks, i + 1,
                             PushCur(stack, [op |-> "lit", subs |-> <<>>, c |-> tok.v, cap |-> 0]),
                             names)
              [] tok.k = "rep" ->
                   ParseFrom(toks, i + 1,
                             PushCur(stack, [op |-> "rep", subs |-> <<>>, c |-> tok.v, cap |-> 0]),
                             names)
              [] tok.k = "open" ->
                   ParseFrom(toks, i + 1,
                             Append(stack, NewFrame(Len(names), tok.v)),
                             Append(names, tok.v))
              [] tok.k = "close" ->
                   IF Len(stack) = 1
                   THEN ParseError("unexpected )")
                   ELSE ParseFrom(toks, i + 1,
                                  PushCur(SubSeq(stack, 1, Len(stack) - 1),
                                          [op |-> "cap", subs |-> <<FrameNode(top)>>,
                                           c |-> top.name, cap |-> top.cap]),
                                  names)
              [] tok.k = "alt" ->
                   ParseFrom(toks, i + 1,
                             ReplaceTop(stack, [top EXCEPT !.alts = Append(top.alts, CatNode(top.cur)),
                                                           !.cur = <<>>]),
                             names)
              [] tok.k = "quest" ->
                   IF top.cur = <<>>
                   THEN ParseError("missing argument to repetition operator")
                   ELSE ParseFrom(toks, i + 1,
                                  ReplaceTop(stack,
                                      [top EXCEPT !.cur = Append(SubSeq(top.cur, 1, Len(top.cur) - 1),
                                            [op |-> "quest", subs |-> <<top.cur[Len(top.cur)]>>,
                                             c |-> "", cap |-> 0])]),
                                  names)
              [] OTHER -> ParseError("unexpected lexeme")

\* regexp.Compile(expr): names is SubexpNames(), names[1] = "" being the
\* name of group 0, the whole match.
RegexpCompile(expr) == ParseFrom(expr, 1, <<NewFrame(0, "")>>, <<"">>)

NumSubexp(prog) == Len(prog.names) - 1

\* --------------------------------------------------- the regexp's matcher
\* Capture positions of one thread: pairs <<start, end>>, <<-1, -1>> for a
\* group that did not participate.
NoCaps(prog) == [g \in 1..NumSubexp(prog) |-> <<-1, -1>>]

RECURSIVE RunLen(_, _, _)
RunLen(s, pos, class) ==
    IF pos < Len(s) /\ s[pos + 1] \in class THEN 1 + RunLen(s, pos + 1, class) ELSE 0

\* Greedy: the longest repetition first.
RECURSIVE RepThreads(_, _, _, _)
RepThreads(pos, len, least, caps) ==
    IF len < least THEN <<>>
    ELSE <<[pos |-> pos + len, caps |-> caps]>> \o RepThreads(pos, len - 1, least, caps)

RECURSIVE MatchNode(_, _, _, _), MatchCat(_, _, _, _, _), MatchAlt(_, _, _, _, _), CatOver(_, _, _, _, _), CapOver(_, _, _, _)
\* The ways node matches s from pos, in the engine's order of preference
\* (leftmost-first): each is the end position and the captures.
MatchNode(node, s, pos, caps) ==
    CASE node.op = "lit" ->
           IF pos < Len(s) /\ s[pos + 1] = node.c
           THEN <<[pos |-> pos + 1, caps |-> caps]>> ELSE <<>>
      [] node.op = "rep" ->
           RepThreads(pos, RunLen(s, pos, ClassOf(node.c)),
                      IF node.c = "d*" THEN 0 ELSE 1, caps)
      [] node.op = "cat" -> MatchCat(node.subs, 1, s, pos, caps)
      [] node.op = "alt" -> MatchAlt(node.subs, 1, s, pos, caps)
      [] node.op = "quest" ->
           MatchNode(node.subs[1], s, pos, caps) \o <<[pos |-> pos, caps |-> caps]>>
      [] node.op = "cap" ->
           CapOver(MatchNode(node.subs[1], s, pos, caps), 1, node.cap, pos)

CapOver(threads, j, cap, start) ==
    IF j > Len(threads) THEN <<>>
    ELSE <<[pos |-> threads[j].pos,
            caps |-> [threads[j].caps EXCEPT ![cap] = <<start, threads[j].pos>>]]>>
         \o CapOver(threads, j + 1, cap, start)

MatchCat(subs, j, s, pos, caps) ==
    IF j > Len(subs) THEN <<[pos |-> pos, caps |-> caps]>>
    ELSE CatOver(MatchNode(subs[j], s, pos, caps), 1, subs, j, s)

CatOver(threads, t, subs, j, s) ==
    IF t > Len(threads) THEN <<>>
    ELSE MatchCat(subs, j + 1, s, threads[t].pos, threads[t].caps)
         \o CatOver(threads, t + 1, subs, j, s)

MatchAlt(subs, j, s, pos, caps) ==
    IF j > Len(subs) THEN <<>>
    ELSE MatchNode(subs[j], s, pos, caps) \o MatchAlt(subs, j + 1, s, pos, caps)

\* re.doExecute(s, pos): the leftmost match starting at or after pos, as the
\* position pairs of groups 0..NumSubexp; <<>> when there is none.
RECURSIVE DoExecute(_, _, _)
DoExecute(prog, s, pos) ==
    IF pos > Len(s) THEN <<>>
    ELSE LET threads == MatchNode(prog.node, s, pos, NoCaps(prog))
         IN IF threads # <<>>
            THEN <<<<pos, threads[1].pos>>>>
                 \o [g \in 1..NumSubexp(prog) |-> threads[1].caps[g]]
            ELSE DoExecute(prog, s, pos + 1)

\* The strings of one match: "" for a group that did not participate.
SubmatchStrings(s, m) ==
    [g \in 1..Len(m) |-> IF m[g][1] >= 0 THEN SubSeq(s, m[g][1] + 1, m[g][2]) ELSE <<>>]

\* re.FindStringSubmatch(s): nil (<<>>) when there is no match.
FindStringSubmatch(prog, s) ==
    LET m == DoExecute(prog, s, 0)
    IN IF m = <<>> THEN <<>> ELSE SubmatchStrings(s, m)

\* re.allMatches: successive non-overlapping matches, at most n of them
\* when n >= 0; an empty match right after the previous match is dropped.
RECURSIVE AllMatches(_, _, _, _, _, _)
AllMatches(prog, s, n, pos, i, prevMatchEnd) ==
    IF ~((n < 0 \/ i < n) /\ pos <= Len(s)) THEN <<>>
    ELSE LET m == DoExecute(prog, s, pos)
         IN IF m = <<>> THEN <<>>
            ELSE LET empty == m[1][2] = pos
                     accept == ~(empty /\ m[1][1] = prevMatchEnd)
                     next == IF empty THEN pos + 1 ELSE m[1][2]
                 IN (IF accept THEN <<m>> ELSE <<>>)
                    \o AllMatches(prog, s, n, next, IF accept THEN i + 1 ELSE i, m[1][2])

\* re.FindAllStringSubmatch(s, n)
FindAllStringSubmatch(prog, s, n) ==
    LET ms == AllMatches(prog, s, n, 0, 0, -1)
    IN [j \in 1..Len(ms) |-> SubmatchStrings(s, ms[j])]


\* ----------------------------------------------------------- struct types
\* The struct types of the callers: each is the sequence of its fields.
Field(name, kind, exported) == [name |-> name, kind |-> kind, exported |-> exported]

FieldsOf(type) ==
    CASE type = "CaptureGroups" -> <<Field("Name", "string", TRUE), Field("Age", "string", TRUE)>>
      [] type = "Mixed" -> <<Field("Name", "string", TRUE), Field("Count", "int", TRUE)>>
      [] type = "InvalidFieldType" -> <<Field("Age", "int", TRUE)>>
      [] type = "UnsetableField" -> <<Field("name", "string", FALSE)>>
      [] OTHER -> <<>>

\* A Go value handed to Compile: kind is its reflect.Kind ("nil" for the
\* nil interface), vals the values of its fields.
Value(kind, type, vals) == [kind |-> kind, type |-> type, vals |-> vals]

Struct(type, vals) == Value("struct", type, vals)

NumField(v) == Len(FieldsOf(v.type))

\* ------------------------------------------------------------------ errors
NoError == [msg |-> "", field |-> ""]

Errorf(msg, field) == [msg |-> msg, field |-> field]

\* ---------------------------------------------- wrapFieldsInCaptureGroups
\* fmt.Sprintf("(?P<%s>%s)", name, pattern)
WrapInGroup(name, pattern) == <<Open(name)>> \o pattern \o <<Close>>

\* The loop over the fields from field i on; dest holds the wrapped
\* patterns of the fields before i.
RECURSIVE WrapFieldsFrom(_, _, _)
WrapFieldsFrom(v, i, dest) ==
    IF i > NumField(v)
    THEN [err |-> NoError, dest |-> Struct(v.type, dest),
          names |-> [j \in 1..NumField(v) |-> FieldsOf(v.type)[j].name]]
    ELSE LET f == FieldsOf(v.type)[i]
             fail(msg) == [err |-> Errorf(msg, f.name), dest |-> Struct("", <<>>), names |-> <<>>]
         IN IF f.kind # "string" THEN fail("fields must be strings")
            ELSE IF ~f.exported THEN fail("fields must be setable")
            ELSE IF v.vals[i] = <<>> THEN fail("field is empty")
            ELSE IF ~RegexpCompile(v.vals[i]).ok THEN fail("error parsing regex in field")
            ELSE WrapFieldsFrom(v, i + 1, Append(dest, WrapInGroup(f.name, v.vals[i])))

wrapFieldsInCaptureGroups(captureGroups) == WrapFieldsFrom(captureGroups, 1, <<>>)

\* ----------------------------------------------------- fillPatternTemplate
HasField(groupStruct, name) ==
    \E j \in 1..NumField(groupStruct) : FieldsOf(groupStruct.type)[j].name = name

FieldByName(groupStruct, name) ==
    groupStruct.vals[CHOOSE j \in 1..NumField(groupStruct) :
                         FieldsOf(groupStruct.type)[j].name = name]

\* template.Parse: a malformed action is a syntax error.
TemplateParses(patternTemplate) ==
    \A j \in 1..Len(patternTemplate) : patternTemplate[j].k # "bad"

\* template.Execute: every action {{.F}} is replaced by the field F of
\* groupStruct; a field the struct does not have is an error.
TemplateExecutes(patternTemplate, groupStruct) ==
    \A j \in 1..Len(patternTemplate) :
        patternTemplate[j].k = "ref" => HasField(groupStruct, patternTemplate[j].v)

RECURSIVE ExecuteFrom(_, _, _)
ExecuteFrom(patternTemplate, j, groupStruct) ==
    IF j > Len(patternTemplate) THEN <<>>
    ELSE (IF patternTemplate[j].k = "ref"
          THEN FieldByName(groupStruct, patternTemplate[j].v)
          ELSE <<patternTemplate[j]>>)
         \o ExecuteFrom(patternTemplate, j + 1, groupStruct)

fillPatternTemplate(patternTemplate, groupStruct) ==
    IF ~TemplateParses(patternTemplate)
    THEN [err |-> Errorf("template: parse", ""), pattern |-> <<>>]
    ELSE IF ~TemplateExecutes(patternTemplate, groupStruct)
    THEN [err |-> Errorf("template: can't evaluate field", ""), pattern |-> <<>>]
    ELSE [err |-> NoError, pattern |-> ExecuteFrom(patternTemplate, 1, groupStruct)]

\* ------------------------------------------------------------------ Compile
\* A Go map is a function on the keys it holds; a key it does not hold
\* reads as the nil slice.
MapGet(m, key) == IF key \in DOMAIN m THEN m[key] ELSE <<>>

EmptyMap == [key \in {} |-> <<>>]

\* As IndexName, but the position replaces the field's list.
RECURSIVE IndexNameOverwriting(_, _, _, _, _)
IndexNameOverwriting(indices, i, submatch, fieldNames, j) ==
    IF j > Len(fieldNames) THEN indices
    ELSE IF fieldNames[j] = submatch
    THEN (fieldNames[j] :> <<i>>) @@ indices
    ELSE IndexNameOverwriting(indices, i, submatch, fieldNames, j + 1)

\* As IndexName, but the position is put in front of the field's list.
RECURSIVE IndexNamePrepending(_, _, _, _, _)
IndexNamePrepending(indices, i, submatch, fieldNames, j) ==
    IF j > Len(fieldNames) THEN indices
    ELSE IF fieldNames[j] = submatch
    THEN (fieldNames[j] :> (<<i>> \o MapGet(indices, fieldNames[j]))) @@ indices
    ELSE IndexNamePrepending(indices, i, submatch, fieldNames, j + 1)

RECURSIVE IndexName(_, _, _, _, _)
\* The inner loop of Compile: the first field name equal to submatch gets
\* position i (counted from 0) appended.
IndexName(indices, i, submatch, fieldNames, j) ==
    IF j > Len(fieldNames) THEN indices
    ELSE IF fieldNames[j] = submatch
    THEN (fieldNames[j] :> Append(MapGet(indices, fieldNames[j]), i))
         @@ indices
    ELSE IndexName(indices, i, submatch, fieldNames, j + 1)

\* As BuildIndices, but a group gets its number among the named groups.
RECURSIVE BuildIndicesCountingNamed(_, _, _, _)
BuildIndicesCountingNamed(indices, subexpNames, k, fieldNames) ==
    IF k > Len(subexpNames) THEN indices
    ELSE BuildIndicesCountingNamed(
             IndexName(indices, Cardinality({m \in 2..k : subexpNames[m] # ""}),
                       subexpNames[k], fieldNames, 1),
             subexpNames, k + 1, fieldNames)

\* The outer loop of Compile over re.SubexpNames().
RECURSIVE BuildIndices(_, _, _, _)
BuildIndices(indices, subexpNames, k, fieldNames) ==
    IF k > Len(subexpNames) THEN indices
    ELSE BuildIndices(IndexName(indices, k - 1, subexpNames[k], fieldNames, 1),
                      subexpNames, k + 1, fieldNames)

NilRegexp ==
    [nil |-> TRUE, expr |-> <<>>, pattern |-> RegexpCompile(<<>>),
     captureGroups |-> Struct("", <<>>), submatchIndicesByFieldName |-> EmptyMap]

\* As CompileResult, but the template is parsed before the fields are
\* validated.
CompileResultTemplateFirst(patternTemplate, captureGroups) ==
    IF captureGroups.kind = "nil"
    THEN [panic |-> TRUE, err |-> NoError, re |-> NilRegexp]
    ELSE IF captureGroups.kind # "struct"
    THEN [panic |-> FALSE, err |-> Errorf("captureGroups must be a struct", ""), re |-> NilRegexp]
    ELSE IF ~TemplateParses(patternTemplate)
    THEN [panic |-> FALSE, err |-> Errorf("template: parse", ""), re |-> NilRegexp]
    ELSE LET w == wrapFieldsInCaptureGroups(captureGroups)
         IN IF w.err # NoError
            THEN [panic |-> FALSE, err |-> w.err, re |-> NilRegexp]
            ELSE LET p == fillPatternTemplate(patternTemplate, w.dest)
                     prog == RegexpCompile(p.pattern)
                 IN IF p.err # NoError \/ ~prog.ok
                    THEN [panic |-> FALSE,
                          err |-> IF p.err # NoError THEN p.err ELSE Errorf("error parsing", ""),
                          re |-> NilRegexp]
                    ELSE [panic |-> FALSE, err |-> NoError,
                          re |-> [nil |-> FALSE, expr |-> p.pattern, pattern |-> prog,
                                  captureGroups |-> w.dest,
                                  submatchIndicesByFieldName |->
                                      BuildIndices(EmptyMap, prog.names, 1, w.names)]]

\* Compile(patternTemplate, captureGroups): the *TypedRegexp and the error
\* it returns, or the panic it raises.
CompileResult(patternTemplate, captureGroups) ==
    IF captureGroups.kind = "nil"
    THEN [panic |-> TRUE, err |-> NoError, re |-> NilRegexp]
    ELSE IF captureGroups.kind # "struct"
    THEN [panic |-> FALSE, err |-> Errorf("captureGroups must be a struct", ""), re |-> NilRegexp]
    ELSE LET w == wrapFieldsInCaptureGroups(captureGroups)
         IN IF w.err # NoError
            THEN [panic |-> FALSE, err |-> w.err, re |-> NilRegexp]
            ELSE LET p == fillPatternTemplate(patternTemplate, w.dest)
                 IN IF p.err # NoError
                    THEN [panic |-> FALSE, err |-> p.err, re |-> NilRegexp]
                    ELSE LET prog == RegexpCompile(p.pattern)
                         IN IF ~prog.ok
                            THEN [panic |-> FALSE, err |-> Errorf("error parsing", ""),
                                  re |-> NilRegexp]
                            ELSE [panic |-> FALSE, err |-> NoError,
                                  re |-> [nil |-> FALSE, expr |-> p.pattern, pattern |-> prog,
                                          captureGroups |-> w.dest,
                                          submatchIndicesByFieldName |->
                                              BuildIndices(EmptyMap, prog.names, 1, w.names)]]

\* ------------------------------------------------------ the submatch resolver
\* As FirstNonEmptyFrom, but the first index decides, empty or not.
FirstIndexOnly(submatchIndices, k, submatches) ==
    IF k > Len(submatchIndices) THEN <<>>
    ELSE LET i == submatchIndices[k]
         IN IF i >= Len(submatches) THEN <<>> ELSE submatches[i + 1]

RECURSIVE FirstNonEmptyFrom(_, _, _)
\* findFirstNonEmptySubmatchForField, from the k-th index of the field on.
FirstNonEmptyFrom(submatchIndices, k, submatches) ==
    IF k > Len(submatchIndices) THEN <<>>
    ELSE LET i == submatchIndices[k]
         IN IF i >= Len(submatches) THEN <<>>
            ELSE IF submatches[i + 1] # <<>> THEN submatches[i + 1]
            ELSE FirstNonEmptyFrom(submatchIndices, k + 1, submatches)

findFirstNonEmptySubmatchForField(r, field, submatches) ==
    FirstNonEmptyFrom(MapGet(r.submatchIndicesByFieldName, field), 1, submatches)

\* assignSubmatchesToStruct: the fields of the struct after the call; every
\* field is set, to the value found for it.
assignSubmatchesToStruct(r, submatches, vals) ==
    [i \in 1..NumField(r.captureGroups) |->
        findFirstNonEmptySubmatchForField(r, FieldsOf(r.captureGroups.type)[i].name, submatches)]

\* ------------------------------------------------------------------ inputs
Strings(len) == UNION {[1..k -> Alphabet] : k \in 0..len}

\* The inputs given to Find and FindAll.
Inputs == Strings(MaxInputLen)

\* A value a caller has put in a field before the call; it is no substring
\* of any input.
Default == <<"Z">>

\* a{{.Name}}|-{{.Name}}
TmplAlternatives == <<Lit("a"), Ref("Name"), Alt, Lit("-"), Ref("Name")>>

\* {{.Name}}(-{{.Age}})?
TmplOptional == <<Ref("Name"), Open(""), Lit("-"), Ref("Age"), Close, Quest>>

\* {{.Name}}-{{.Name}}{{.Age}}?
TmplTwice == <<Ref("Name"), Lit("-"), Ref("Name"), Ref("Age"), Quest>>

\* (?P<Name>-)?(a)(?P<Other>a)?{{.Age}}{{.Name}}
TmplLiteralGroups ==
    <<Open("Name"), Lit("-"), Close, Quest, Open(""), Lit("a"), Close,
      Open("Other"), Lit("a"), Close, Quest, Ref("Age"), Ref("Name")>>

\* a
TmplNoField == <<Lit("a")>>

\* {{.Name}|{{.Age}}
TmplSyntaxError == <<Bad, Alt, Ref("Age")>>

\* {{.Name}}{{.Missing}}
TmplUnknownField == <<Ref("Name"), Ref("Missing")>>

\* ({{.Name}}-{{.Age}}
TmplUnbalanced == <<Open(""), Ref("Name"), Lit("-"), Ref("Age")>>

\* (
TmplParen == <<Open("")>>

Templates ==
    {TmplAlternatives, TmplOptional, TmplTwice, TmplLiteralGroups, TmplNoField,
     TmplSyntaxError, TmplUnknownField, TmplUnbalanced, TmplParen}

Schemas ==
    {Struct("CaptureGroups", <<<<Rep("d*")>>, <<Rep("d+")>>>>),
     Struct("CaptureGroups", <<<<Rep("w+")>>, <<Rep("d+")>>>>),
     Struct("CaptureGroups", <<<<>>, <<>>>>),
     Struct("CaptureGroups", <<<<Open("")>>, <<Close>>>>),
     Struct("CaptureGroups", <<<<Rep("d+")>>, <<>>>>),
     Struct("CaptureGroups", <<<<Rep("d+")>>, <<Close>>>>),
     Struct("Mixed", <<<<>>, 0>>),
     Struct("Mixed", <<<<Rep("d+")>>, 0>>),
     Struct("InvalidFieldType", <<0>>),
     Struct("UnsetableField", <<<<>>>>),
     Struct("Empty", <<>>),
     Value("string", "string", <<>>),
     Value("ptr", "CaptureGroups", <<<<Rep("d*")>>, <<Rep("d+")>>>>),
     Value("nil", "", <<>>)}

\* The struct values of a type a caller may hand in: every string field is
\* either zero or pre-populated.
StructVals(type) == [1..Len(FieldsOf(type)) -> {<<>>, Default}]

\* Every field zero, or every field pre-populated.
UniformVals(type) ==
    {vals \in StructVals(type) : \A i, j \in 1..Len(vals) : vals[i] = vals[j]}

\* The arguments given to Find: pointers to structs of the matcher's types,
\* a pointer to another type and a struct passed by value.
FindArgs ==
    {Value("ptr", "CaptureGroups", vals) : vals \in StructVals("CaptureGroups")}
    \cup {Value("ptr", "Empty", <<>>), Value("ptr", "InvalidFieldType", <<0>>),
          Value("struct", "CaptureGroups", <<<<>>, <<>>>>)}

\* An element of a slice: a struct, or for a slice of pointers a pointer
\* that may be nil.
Item(vals) == [nil |-> FALSE, vals |-> vals]

NilItem == [nil |-> TRUE, vals |-> <<>>]

Slice(kind, type, items) == [kind |-> kind, type |-> type, items |-> items]

SlicesOf(type) ==
    LET structs == {Item(vals) : vals \in UniformVals(type)}
    IN {Slice("slice", type, items) :
            items \in UNION {[1..k -> structs] : k \in 0..MaxSlice}}
       \cup {Slice("sliceptr", type, items) :
            items \in UNION {[1..k -> structs \cup {NilItem}] : k \in 0..MaxSlice}}

FindAllArgs ==
    SlicesOf("CaptureGroups") \cup SlicesOf("Empty")
    \cup {Slice("slice", "InvalidFieldType", <<>>),
          Slice("struct", "CaptureGroups", <<>>)}

\* --------------------------------------------------------------- the state
VARIABLES
    pc,            \* "start", "returned", "ready" or "failed"
    op,            \* the last call: "", "Compile", "MustCompile", "Find", "FindAll"
    tmpl,          \* the template given to Compile
    schema,        \* the captureGroups given to Compile
    re,            \* the *TypedRegexp returned
    err,           \* the error returned by Compile
    panicked,      \* the last call panicked
    s,             \* the input of the last Find / FindAll
    values0,       \* the caller's value before the last Find
    values,        \* the caller's value after it
    valuesSlice0,  \* the caller's slice before the last FindAll
    valuesSlice,   \* the caller's slice after it
    found,         \* what Find returned
    n,             \* what FindAll returned
    resolved,      \* the calls of assignSubmatchesToStruct: slot and submatches
    attempts,      \* how often the last call ran the pattern on its input
    callers,       \* the calls of concurrent callers on the matcher, each
                   \* with its locals and its own output
    lookup         \* the last direct call of the resolver

vars ==
    <<pc, op, tmpl, schema, re, err, panicked, s, values0, values,
      valuesSlice0, valuesSlice, found, n, resolved, attempts, callers, lookup>>

compileVars == <<tmpl, schema, re, err>>

\* What the last call of the single caller left.
callVars ==
    <<op, panicked, s, values0, values, valuesSlice0, valuesSlice, found, n,
      resolved, attempts>>

\* The goroutines that share the matcher.
Callers == {"g1", "g2"}

\* A goroutine that has made no call yet.
Idle ==
    [pc |-> "idle", op |-> "", s |-> <<>>, arg |-> <<>>, items |-> <<>>,
     allSubmatches |-> <<>>, i |-> 1, panicked |-> FALSE, found |-> FALSE, n |-> 0,
     overlapped |-> FALSE]

NoLookup == [called |-> FALSE, field |-> "", submatches |-> <<>>, value |-> <<>>]

NoValue == Value("ptr", "", <<>>)

NoSlice == Slice("slice", "", <<>>)

NoCall ==
    /\ s' = <<>>
    /\ values0' = NoValue
    /\ values' = NoValue
    /\ valuesSlice0' = NoSlice
    /\ valuesSlice' = NoSlice
    /\ found' = FALSE
    /\ n' = 0
    /\ resolved' = <<>>
    /\ attempts' = 0

Init ==
    /\ pc = "start"
    /\ op = ""
    /\ tmpl = <<>>
    /\ schema = Value("nil", "", <<>>)
    /\ re = NilRegexp
    /\ err = NoError
    /\ panicked = FALSE
    /\ s = <<>>
    /\ values0 = NoValue
    /\ values = NoValue
    /\ valuesSlice0 = NoSlice
    /\ valuesSlice = NoSlice
    /\ found = FALSE
    /\ n = 0
    /\ resolved = <<>>
    /\ attempts = 0
    /\ callers = [c \in Callers |-> Idle]
    /\ lookup = NoLookup

\* ----------------------------------------------------------------- actions
Compile(patternTemplate, captureGroups) ==
    /\ pc = "start"
    /\ LET r == CompileResult(patternTemplate, captureGroups)
       IN /\ re' = r.re
          /\ err' = r.err
          /\ panicked' = r.panic
          /\ pc' = IF r.panic \/ r.err # NoError THEN "failed" ELSE "returned"
    /\ op' = "Compile"
    /\ tmpl' = patternTemplate
    /\ schema' = captureGroups
    /\ NoCall
    /\ UNCHANGED <<callers, lookup>>

\* MustCompile panics with the error of Compile; err keeps that error.
MustCompile(patternTemplate, captureGroups) ==
    /\ pc = "start"
    /\ LET r == CompileResult(patternTemplate, captureGroups)
       IN /\ re' = r.re
          /\ err' = r.err
          /\ panicked' = (r.panic \/ r.err # NoError)
          /\ pc' = IF r.panic \/ r.err # NoError THEN "failed" ELSE "returned"
    /\ op' = "MustCompile"
    /\ tmpl' = patternTemplate
    /\ schema' = captureGroups
    /\ NoCall
    /\ UNCHANGED <<callers, lookup>>

\* As FindResult, without the early return when there is no match.
FindResultNoEarlyReturn(r, str, arg) ==
    IF ~(arg.kind = "ptr" /\ arg.type = r.captureGroups.type)
    THEN [panic |-> TRUE, found |-> FALSE, values |-> arg, resolved |-> <<>>, attempts |-> 0]
    ELSE LET submatches == FindStringSubmatch(r.pattern, str)
         IN [panic |-> FALSE, found |-> TRUE,
             values |-> [arg EXCEPT !.vals = assignSubmatchesToStruct(r, submatches, arg.vals)],
             resolved |-> <<[slot |-> 1, submatches |-> submatches]>>, attempts |-> 1]

\* As FindResult, but found only when some field got a value.
FindResultFoundIfFieldSet(r, str, arg) ==
    IF ~(arg.kind = "ptr" /\ arg.type = r.captureGroups.type)
    THEN [panic |-> TRUE, found |-> FALSE, values |-> arg, resolved |-> <<>>, attempts |-> 0]
    ELSE LET submatches == FindStringSubmatch(r.pattern, str)
             vals == assignSubmatchesToStruct(r, submatches, arg.vals)
         IN IF Len(submatches) = 0
            THEN [panic |-> FALSE, found |-> FALSE, values |-> arg, resolved |-> <<>>, attempts |-> 1]
            ELSE [panic |-> FALSE, found |-> \E i \in 1..Len(vals) : vals[i] # <<>>,
                  values |-> [arg EXCEPT !.vals = vals],
                  resolved |-> <<[slot |-> 1, submatches |-> submatches]>>, attempts |-> 1]

\* As FindResult, but the pattern is run before the type of the argument
\* is checked.
FindResultCheckAfterMatch(r, str, arg) ==
    LET submatches == FindStringSubmatch(r.pattern, str)
    IN IF Len(submatches) = 0
       THEN [panic |-> FALSE, found |-> FALSE, values |-> arg, resolved |-> <<>>, attempts |-> 1]
       ELSE IF ~(arg.kind = "ptr" /\ arg.type = r.captureGroups.type)
       THEN [panic |-> TRUE, found |-> FALSE, values |-> arg, resolved |-> <<>>, attempts |-> 1]
       ELSE [panic |-> FALSE, found |-> TRUE,
             values |-> [arg EXCEPT !.vals = assignSubmatchesToStruct(r, submatches, arg.vals)],
             resolved |-> <<[slot |-> 1, submatches |-> submatches]>>, attempts |-> 1]

\* What Find(str, arg) does on the matcher r: the panic, the result and the
\* caller's struct afterwards.
FindResult(r, str, arg) ==
    IF ~(arg.kind = "ptr" /\ arg.type = r.captureGroups.type)
    THEN [panic |-> TRUE, found |-> FALSE, values |-> arg, resolved |-> <<>>, attempts |-> 0]
    ELSE LET submatches == FindStringSubmatch(r.pattern, str)
         IN IF Len(submatches) = 0
            THEN [panic |-> FALSE, found |-> FALSE, values |-> arg, resolved |-> <<>>, attempts |-> 1]
            ELSE [panic |-> FALSE, found |-> TRUE,
                  values |-> [arg EXCEPT !.vals = assignSubmatchesToStruct(r, submatches, arg.vals)],
                  resolved |-> <<[slot |-> 1, submatches |-> submatches]>>, attempts |-> 1]

Find(str, arg) ==
    /\ pc = "ready"
    /\ LET r == FindResult(re, str, arg)
       IN /\ panicked' = r.panic
          /\ found' = r.found
          /\ values' = r.values
          /\ resolved' = r.resolved
          /\ attempts' = r.attempts
    /\ pc' = "returned"
    /\ op' = "Find"
    /\ s' = str
    /\ values0' = arg
    /\ UNCHANGED <<compileVars, valuesSlice0, valuesSlice, n, callers, lookup>>

\* As AssignAll, but a nil slot does not use up a match: match k goes to
\* the next slot that is not nil.
RECURSIVE AssignShifted(_, _, _, _, _)
AssignShifted(r, allSubmatches, j, k, items) ==
    IF j > Len(items) \/ k > Len(allSubmatches) THEN items
    ELSE IF items[j].nil THEN AssignShifted(r, allSubmatches, j + 1, k, items)
    ELSE AssignShifted(r, allSubmatches, j + 1, k + 1,
             [items EXCEPT ![j].vals = assignSubmatchesToStruct(r, allSubmatches[k], @)])

AssignAllShifted(r, allSubmatches, j, items) == AssignShifted(r, allSubmatches, j, j, items)

\* As AssignAll, but the loop runs over the slice instead of the matches.
RECURSIVE AssignAllOverSlice(_, _, _, _)
AssignAllOverSlice(r, allSubmatches, j, items) ==
    IF j > Len(items) THEN items
    ELSE AssignAllOverSlice(r, allSubmatches, j + 1,
             IF items[j].nil THEN items
             ELSE [items EXCEPT ![j].vals =
                      assignSubmatchesToStruct(r,
                          IF j <= Len(allSubmatches) THEN allSubmatches[j] ELSE <<>>, @)])

RECURSIVE AssignAll(_, _, _, _)
\* The loop of FindAll over allSubmatches, from match j on.
AssignAll(r, allSubmatches, j, items) ==
    IF j > Len(allSubmatches) THEN items
    ELSE AssignAll(r, allSubmatches, j + 1,
             IF items[j].nil THEN items
             ELSE [items EXCEPT ![j].vals = assignSubmatchesToStruct(r, allSubmatches[j], @)])

RECURSIVE ResolvedOf(_, _, _)
ResolvedOf(allSubmatches, j, items) ==
    IF j > Len(allSubmatches) THEN <<>>
    ELSE (IF items[j].nil THEN <<>>
          ELSE <<[slot |-> j, submatches |-> allSubmatches[j]]>>)
         \o ResolvedOf(allSubmatches, j + 1, items)

\* As FindAllResult, but the engine is asked for every match.
FindAllResultUnbounded(r, str, arg) ==
    IF ~(arg.kind \in {"slice", "sliceptr"} /\ arg.type = r.captureGroups.type)
    THEN [panic |-> TRUE, n |-> 0, slice |-> arg, resolved |-> <<>>, attempts |-> 0]
    ELSE IF Len(arg.items) = 0
    THEN [panic |-> FALSE, n |-> 0, slice |-> arg, resolved |-> <<>>, attempts |-> 0]
    ELSE LET allSubmatches == FindAllStringSubmatch(r.pattern, str, -1)
             fitting == SubSeq(allSubmatches, 1, Min(Len(allSubmatches), Len(arg.items)))
         IN [panic |-> FALSE, n |-> Len(allSubmatches),
             slice |-> [arg EXCEPT !.items = AssignAll(r, fitting, 1, arg.items)],
             resolved |-> ResolvedOf(fitting, 1, arg.items), attempts |-> 1]

\* As FindAllResult, but only the matches that gave some field a value
\* are counted.
FindAllResultCountsAssigned(r, str, arg) ==
    IF ~(arg.kind \in {"slice", "sliceptr"} /\ arg.type = r.captureGroups.type)
    THEN [panic |-> TRUE, n |-> 0, slice |-> arg, resolved |-> <<>>, attempts |-> 0]
    ELSE IF Len(arg.items) = 0
    THEN [panic |-> FALSE, n |-> 0, slice |-> arg, resolved |-> <<>>, attempts |-> 0]
    ELSE LET allSubmatches == FindAllStringSubmatch(r.pattern, str, Len(arg.items))
             zero == [i \in 1..NumField(r.captureGroups) |-> <<>>]
             assigned == {j \in 1..Len(allSubmatches) :
                             assignSubmatchesToStruct(r, allSubmatches[j], zero) # zero}
         IN [panic |-> FALSE, n |-> Cardinality(assigned),
             slice |-> [arg EXCEPT !.items = AssignAll(r, allSubmatches, 1, arg.items)],
             resolved |-> ResolvedOf(allSubmatches, 1, arg.items), attempts |-> 1]

\* What FindAll(str, arg) does on the matcher r: the panic, the result and
\* the caller's slice afterwards.
FindAllResult(r, str, arg) ==
    IF ~(arg.kind \in {"slice", "sliceptr"} /\ arg.type = r.captureGroups.type)
    THEN [panic |-> TRUE, n |-> 0, slice |-> arg, resolved |-> <<>>, attempts |-> 0]
    ELSE IF Len(arg.items) = 0
    THEN [panic |-> FALSE, n |-> 0, slice |-> arg, resolved |-> <<>>, attempts |-> 0]
    ELSE LET allSubmatches == FindAllStringSubmatch(r.pattern, str, Len(arg.items))
         IN [panic |-> FALSE, n |-> Len(allSubmatches),
             slice |-> [arg EXCEPT !.items = AssignAll(r, allSubmatches, 1, arg.items)],
             resolved |-> ResolvedOf(allSubmatches, 1, arg.items), attempts |-> 1]

FindAll(str, arg) ==
    /\ pc = "ready"
    /\ LET r == FindAllResult(re, str, arg)
       IN /\ panicked' = r.panic
          /\ n' = r.n
          /\ valuesSlice' = r.slice
          /\ resolved' = r.resolved
          /\ attempts' = r.attempts
    /\ pc' = "returned"
    /\ op' = "FindAll"
    /\ s' = str
    /\ valuesSlice0' = arg
    /\ UNCHANGED <<compileVars, values0, values, found, callers, lookup>>

\* The caller is done with the results of a call and may make a call on
\* the matcher.
Return ==
    /\ pc = "returned"
    /\ pc' = "ready"
    /\ op' = ""
    /\ panicked' = FALSE
    /\ NoCall
    /\ UNCHANGED <<compileVars, callers, lookup>>

Next ==
    \/ pc = "start" /\ \E t \in Templates, c \in Schemas : Compile(t, c)
    \/ pc = "start" /\ \E t \in Templates, c \in Schemas : MustCompile(t, c)
    \/ pc = "ready" /\ \E str \in Inputs, arg \in FindArgs : Find(str, arg)
    \/ pc = "ready" /\ \E str \in Inputs, arg \in FindAllArgs : FindAll(str, arg)
    \/ Return

Spec == Init /\ [][Next]_vars

\* ------------------------------------------------------- concurrent callers
\* Goroutines call Find and FindAll on the one matcher, each with its own
\* output.  A call takes a step to check its argument and run the pattern,
\* a step per match to resolve it into the output, and a step to return;
\* the steps of the goroutines interleave.

\* The inputs and outputs of the concurrent calls.
ConcInputs == {<<"a", "1">>, <<"-">>, <<"1", "-", "1">>}

ConcFindArgs ==
    {Value("ptr", "CaptureGroups", <<Default, Default>>),
     Value("struct", "CaptureGroups", <<<<>>, <<>>>>)}

ConcFindAllArgs ==
    {Slice("slice", "CaptureGroups", [j \in 1..k |-> Item(<<Default, Default>>)]) :
        k \in 0..MaxSlice}
    \cup {Slice("sliceptr", "CaptureGroups", <<NilItem, Item(<<Default, Default>>)>>),
          Slice("slice", "InvalidFieldType", <<>>)}

\* Some other goroutine is in the middle of a call.
OtherUnderWay(cs, c) == \E d \in Callers \ {c} : cs[d].pc = "assigning"

\* As Started, but the matcher keeps the submatches in one buffer: those of
\* a new call replace those of the calls under way.
StartedSharingBuffer(cs, c, call) ==
    [d \in Callers |->
        IF d = c THEN call
        ELSE IF cs[d].pc = "assigning" /\ call.pc = "assigning"
                /\ Len(call.allSubmatches) = Len(cs[d].allSubmatches)
        THEN [cs[d] EXCEPT !.allSubmatches = call.allSubmatches]
        ELSE cs[d]]

\* The goroutines after c has begun a call: submatches are a local of the
\* call, the other calls keep theirs.
Started(cs, c, call) == [cs EXCEPT ![c] = call]

\* Find up to the call of assignSubmatchesToStruct.
FindCall(r, str, arg, over) ==
    LET call == [Idle EXCEPT !.op = "Find", !.s = str, !.arg = arg,
                             !.items = <<Item(arg.vals)>>, !.overlapped = over]
    IN IF ~(arg.kind = "ptr" /\ arg.type = r.captureGroups.type)
       THEN [call EXCEPT !.pc = "done", !.panicked = TRUE]
       ELSE LET submatches == FindStringSubmatch(r.pattern, str)
            IN IF Len(submatches) = 0
               THEN [call EXCEPT !.pc = "done"]
               ELSE [call EXCEPT !.pc = "assigning", !.allSubmatches = <<submatches>>]

\* FindAll up to its loop.
FindAllCall(r, str, arg, over) ==
    LET call == [Idle EXCEPT !.op = "FindAll", !.s = str, !.arg = arg,
                             !.items = arg.items, !.overlapped = over]
    IN IF ~(arg.kind \in {"slice", "sliceptr"} /\ arg.type = r.captureGroups.type)
       THEN [call EXCEPT !.pc = "done", !.panicked = TRUE]
       ELSE IF Len(arg.items) = 0
       THEN [call EXCEPT !.pc = "done"]
       ELSE LET allSubmatches == FindAllStringSubmatch(r.pattern, str, Len(arg.items))
            IN [call EXCEPT !.pc = "assigning", !.allSubmatches = allSubmatches,
                            !.n = Len(allSubmatches)]

CallFind(c, str, arg) ==
    /\ pc = "ready"
    /\ callers[c].pc = "idle"
    /\ callers' = Started(callers, c, FindCall(re, str, arg, OtherUnderWay(callers, c)))
    /\ UNCHANGED <<pc, compileVars, callVars, lookup>>

CallFindAll(c, str, arg) ==
    /\ pc = "ready"
    /\ callers[c].pc = "idle"
    /\ callers' = Started(callers, c, FindAllCall(re, str, arg, OtherUnderWay(callers, c)))
    /\ UNCHANGED <<pc, compileVars, callVars, lookup>>

\* The output after the next match of the call is resolved into its
\* element; a nil element is skipped.
Assigned(r, call) ==
    LET j == call.i
    IN IF call.items[j].nil THEN call.items
       ELSE [call.items EXCEPT
                ![j].vals = assignSubmatchesToStruct(r, call.allSubmatches[j], @)]

AssignNext(c) ==
    /\ pc = "ready"
    /\ callers[c].pc = "assigning"
    /\ callers[c].i <= Len(callers[c].allSubmatches)
    /\ callers' =
          [callers EXCEPT
              ![c] = [@ EXCEPT !.items = Assigned(re, callers[c]), !.i = @ + 1,
                               !.overlapped = @ \/ OtherUnderWay(callers, c)]]
    /\ UNCHANGED <<pc, compileVars, callVars, lookup>>

\* The call returns: true from Find, n from FindAll.
ReturnCall(c) ==
    /\ pc = "ready"
    /\ callers[c].pc = "assigning"
    /\ callers[c].i > Len(callers[c].allSubmatches)
    /\ callers' =
          [callers EXCEPT
              ![c] = [@ EXCEPT !.pc = "done", !.found = (@ \/ callers[c].op = "Find"),
                               !.overlapped = @ \/ OtherUnderWay(callers, c)]]
    /\ UNCHANGED <<pc, compileVars, callVars, lookup>>

NextConc ==
    \/ pc = "start" /\ \E t \in Templates, c \in Schemas : Compile(t, c)
    \/ Return
    \/ pc = "ready" /\ \E c \in Callers, str \in ConcInputs, arg \in ConcFindArgs :
                          CallFind(c, str, arg)
    \/ pc = "ready" /\ \E c \in Callers, str \in ConcInputs, arg \in ConcFindAllArgs :
                          CallFindAll(c, str, arg)
    \/ pc = "ready" /\ \E c \in Callers : AssignNext(c)
    \/ pc = "ready" /\ \E c \in Callers : ReturnCall(c)

SpecConc == Init /\ [][NextConc]_vars

\* ------------------------------------------------------ the resolver alone
\* findFirstNonEmptySubmatchForField called on the compiled matcher with a
\* submatch slice of any length up to that of a match of the pattern.

\* What a submatch holds: nothing, or a piece of the input.
SubmatchValues == {<<>>, <<"1">>}

SubmatchSlices(r) ==
    UNION {[1..len -> SubmatchValues] : len \in 0..(NumSubexp(r.pattern) + 1)}

Lookup(field, submatches) ==
    /\ pc = "ready"
    /\ lookup' = [called |-> TRUE, field |-> field, submatches |-> submatches,
                  value |-> findFirstNonEmptySubmatchForField(re, field, submatches)]
    /\ UNCHANGED <<pc, compileVars, callVars, callers>>

NextResolver ==
    \/ pc = "start" /\ \E t \in Templates, c \in Schemas : Compile(t, c)
    \/ Return
    \/ pc = "ready" /\ \E i \in 1..NumField(re.captureGroups),
                          submatches \in SubmatchSlices(re) :
                          Lookup(FieldsOf(re.captureGroups.type)[i].name, submatches)

SpecResolver == Init /\ [][NextResolver]_vars

\* ------------------------------------------------- what the claims speak of
FieldName(r, i) == FieldsOf(r.captureGroups.type)[i].name

Range(seq) == {seq[k] : k \in 1..Len(seq)}

\* The positions of a field at which the match has a present non-empty
\* submatch.
NonEmptyPositions(r, field, submatches) ==
    {p \in Range(MapGet(r.submatchIndicesByFieldName, field)) :
        p < Len(submatches) /\ submatches[p + 1] # <<>>}

LeastOf(set) == CHOOSE p \in set : \A q \in set : p <= q

\* The calls of the resolver made by the last Find or FindAll, with the
\* struct each was made on, before and after.
Calls == IF op \in {"Find", "FindAll"} THEN Range(resolved) ELSE {}

Before(c) == IF op = "Find" THEN values0.vals ELSE valuesSlice0.items[c.slot].vals

After(c) == IF op = "Find" THEN values.vals ELSE valuesSlice.items[c.slot].vals

FieldIndexes == 1..NumField(re.captureGroups)

\* The pattern has no match in str.
NoMatchIn(r, str) ==
    \A q \in 0..Len(str) : MatchNode(r.pattern.node, str, q, NoCaps(r.pattern)) = <<>>

\* The start of the leftmost match of the pattern in str.
LeftmostStart(r, str) ==
    LeastOf({q \in 0..Len(str) : MatchNode(r.pattern.node, str, q, NoCaps(r.pattern)) # <<>>})

\* ------------------------------------------------------------------- claims
\* C1: a field with no present non-empty submatch in the match keeps the
\* value it had before Find, or before FindAll for a slot that is not nil.
C1_DefaultsPreserved ==
    \A c \in Calls : \A i \in FieldIndexes :
        NonEmptyPositions(re, FieldName(re, i), c.submatches) = {}
            => After(c)[i] = Before(c)[i]

\* C2: when the pattern has no match in the input, Find returns false and
\* the caller's value is as it was before the call.
C2_NoMatchLeavesValues ==
    (op = "Find" /\ ~panicked /\ NoMatchIn(re, s))
        => (~found /\ values = values0)

C2_Witness ==
    /\ op = "Find" /\ ~panicked /\ NoMatchIn(re, s)
    /\ ~found
    /\ \E i \in FieldIndexes : values0.vals[i] = Default /\ values.vals[i] = Default

\* C3: a field with a present non-empty submatch gets the one at the least
\* of its positions that has one.
C3_FirstNonEmptyWins ==
    \A c \in Calls : \A i \in FieldIndexes :
        LET set == NonEmptyPositions(re, FieldName(re, i), c.submatches)
        IN set # {} => After(c)[i] = c.submatches[LeastOf(set) + 1]

\* Only the second branch took part: the field's first position is empty,
\* its second holds the value the field got.
C3_Witness ==
    /\ op = "Find" /\ found
    /\ \E i \in FieldIndexes :
        LET idx == MapGet(re.submatchIndicesByFieldName, FieldName(re, i))
            sub == resolved[1].submatches
        IN /\ Len(idx) = 2
           /\ idx[1] < idx[2]
           /\ sub[idx[1] + 1] = <<>>
           /\ sub[idx[2] + 1] # <<>>
           /\ values.vals[i] = sub[idx[2] + 1]

EveryMatch(r, str) == FindAllStringSubmatch(r.pattern, str, -1)

Capacity == Len(valuesSlice0.items)

\* C5: FindAll returns min(capacity, number of matches in the input) and
\* the matches it resolves are the first ones of the input, the j-th into
\* slot j; with capacity 0 it returns 0.
C5_BoundedByCapacity ==
    (op = "FindAll" /\ ~panicked)
        => LET all == EveryMatch(re, s)
           IN /\ n = Min(Capacity, Len(all))
              /\ \A c \in Calls :
                    /\ c.slot <= Min(Capacity, Len(all))
                    /\ c.submatches = all[c.slot]
              /\ \A j \in 1..n :
                    ~valuesSlice0.items[j].nil => \E c \in Calls : c.slot = j

\* More matches in the input than slots, and more than one slot.
C5_Witness ==
    /\ op = "FindAll" /\ ~panicked
    /\ Capacity > 1
    /\ Len(EveryMatch(re, s)) > Capacity
    /\ n = Capacity
    /\ Len(resolved) = Capacity

\* C6: a nil slot stays nil and its match is dropped; a slot that is not nil
\* below the returned count holds the values of the match at its own
\* position; the count includes the dropped matches.
C6_NilSlotsSkipped ==
    (op = "FindAll" /\ ~panicked)
        => /\ \A j \in 1..Capacity :
                valuesSlice0.items[j].nil
                    => /\ valuesSlice.items[j] = NilItem
                       /\ \A c \in Calls : c.slot # j
           /\ \A j \in 1..n :
                ~valuesSlice0.items[j].nil
                    => \A i \in FieldIndexes :
                         LET set == NonEmptyPositions(re, FieldName(re, i), EveryMatch(re, s)[j])
                         IN set # {} =>
                              valuesSlice.items[j].vals[i] = EveryMatch(re, s)[j][LeastOf(set) + 1]
           /\ n = Len(resolved) + Cardinality({j \in 1..n : valuesSlice0.items[j].nil})

\* A nil slot followed by a slot that gets a value of the second match
\* which the first match does not have.
C6_Witness ==
    /\ op = "FindAll" /\ ~panicked
    /\ n = 2
    /\ valuesSlice0.items[1].nil /\ valuesSlice.items[1].nil
    /\ ~valuesSlice0.items[2].nil
    /\ \E i \in FieldIndexes :
          /\ valuesSlice.items[2].vals[i] # <<>>
          /\ valuesSlice.items[2].vals[i] \in Range(EveryMatch(re, s)[2])
          /\ valuesSlice.items[2].vals[i] \notin Range(EveryMatch(re, s)[1])

\* C7: the count FindAll returns is at most the capacity and the slots from
\* that count on are as they were before the call.
C7_NoWriteBeyondCount ==
    (op = "FindAll" /\ ~panicked)
        => /\ n <= Capacity
           /\ Len(valuesSlice.items) = Capacity
           /\ \A j \in (n + 1)..Capacity : valuesSlice.items[j] = valuesSlice0.items[j]

\* Fewer matches than slots, and a pre-populated slot after the last match.
C7_Witness ==
    /\ op = "FindAll" /\ ~panicked
    /\ n >= 1 /\ n < Capacity
    /\ \E j \in (n + 1)..Capacity :
          /\ ~valuesSlice0.items[j].nil
          /\ \E i \in FieldIndexes : valuesSlice0.items[j].vals[i] = Default
          /\ valuesSlice.items[j] = valuesSlice0.items[j]

\* ---------------------------------------------- what Compile is asked to do
Compiling == op \in {"Compile", "MustCompile"}

\* Why field i of the struct v is rejected, "" when it is not.
FieldFailure(v, i) ==
    LET f == FieldsOf(v.type)[i]
    IN IF f.kind # "string" THEN "fields must be strings"
       ELSE IF ~f.exported THEN "fields must be setable"
       ELSE IF Len(v.vals[i]) = 0 THEN "field is empty"
       ELSE IF ~RegexpCompile(v.vals[i]).ok THEN "error parsing regex in field"
       ELSE ""

FailingFields(v) == {i \in 1..NumField(v) : FieldFailure(v, i) # ""}

ValidSchema(v) == v.kind = "struct" /\ FailingFields(v) = {}

\* The number of actions {{.field}} in the template.
RefCount(t, field) == Cardinality({j \in 1..Len(t) : t[j] = Ref(field)})

\* The number of groups the literal text of the template names field.
LiteralGroupCount(t, field) == Cardinality({j \in 1..Len(t) : t[j] = Open(field)})

EachFieldReferenced(t, v) ==
    \A i \in 1..NumField(v) : RefCount(t, FieldsOf(v.type)[i].name) >= 1

\* The template with every action replaced by the named group of its field.
RECURSIVE Substituted(_, _, _)
Substituted(t, v, j) ==
    IF j > Len(t) THEN <<>>
    ELSE (IF t[j].k = "ref"
          THEN LET i == CHOOSE i \in 1..NumField(v) : FieldsOf(v.type)[i].name = t[j].v
               IN <<Open(t[j].v)>> \o v.vals[i] \o <<Close>>
          ELSE <<t[j]>>)
         \o Substituted(t, v, j + 1)

\* The template is well formed, names only fields of the struct, and its
\* composite pattern is one the engine accepts.
TemplateFits(t, v) ==
    /\ \A j \in 1..Len(t) : t[j].k # "bad"
    /\ \A j \in 1..Len(t) :
          t[j].k = "ref" => \E i \in 1..NumField(v) : FieldsOf(v.type)[i].name = t[j].v
    /\ RegexpCompile(Substituted(t, v, 1)).ok

\* C8: when a field of the struct is invalid, Compile returns the error of
\* the first such field in declaration order, naming it, whatever the later
\* fields and the template are.
C8_FirstInvalidFieldReported ==
    (Compiling /\ schema.kind = "struct" /\ FailingFields(schema) # {})
        => LET i == LeastOf(FailingFields(schema))
           IN /\ err = Errorf(FieldFailure(schema, i), FieldsOf(schema.type)[i].name)
              /\ re = NilRegexp

\* Two invalid fields and a template with a syntax error: the error is the
\* first field's.
C8_Witness ==
    /\ op = "Compile"
    /\ schema.kind = "struct"
    /\ Cardinality(FailingFields(schema)) = 2
    /\ ~TemplateParses(tmpl)
    /\ err.field = FieldsOf(schema.type)[1].name
    /\ err.msg = "error parsing regex in field"

\* C9: whenever compilation fails, Compile returns an error and a nil
\* matcher; MustCompile panics exactly when Compile returns an error and
\* otherwise returns Compile's matcher.
C9_FailureReturnsErrorAndNil ==
    /\ (op = "Compile" /\ ~(ValidSchema(schema) /\ TemplateFits(tmpl, schema)))
          => (~panicked /\ err # NoError /\ re = NilRegexp)
    /\ op = "MustCompile"
          => /\ panicked <=> CompileResult(tmpl, schema).err # NoError
             /\ ~panicked => (re = CompileResult(tmpl, schema).re /\ ~re.nil)

PointerToSchema == values0.kind = "ptr" /\ values0.type = schema.type

\* The output of the last FindAll is a slice of the struct type given to
\* Compile, or a slice of pointers to it.
SliceOfSchema ==
    valuesSlice0.kind \in {"slice", "sliceptr"} /\ valuesSlice0.type = schema.type

\* C11: Find panics when its output is no pointer to the struct type given
\* to Compile, and FindAll when its output is neither a slice of that type
\* nor a slice of pointers to it; the call has then not run the pattern,
\* has resolved nothing and has left the caller's value as it was.
C11_ShapeCheckedBeforeMatching ==
    /\ (op = "Find" /\ ~PointerToSchema)
          => /\ panicked /\ ~found
             /\ attempts = 0 /\ resolved = <<>>
             /\ values = values0
    /\ (op = "FindAll" /\ ~SliceOfSchema)
          => /\ panicked /\ n = 0
             /\ attempts = 0 /\ resolved = <<>>
             /\ valuesSlice = valuesSlice0

\* Find panics on a pointer to a pre-populated struct of another type, on
\* an input the pattern has a match in.
C11_Witness ==
    /\ op = "Find" /\ panicked
    /\ values0.kind = "ptr" /\ values0.type = "CaptureGroups" /\ schema.type = "Empty"
    /\ \E i \in 1..Len(values0.vals) : values0.vals[i] = Default
    /\ ~NoMatchIn(re, s)
    /\ values = values0

\* The slice of one element holding the struct vals, and the pointer to the
\* struct of an element.
OneElement(type, vals) == Slice("slice", type, <<Item(vals)>>)

PointerTo(type, item) == Value("ptr", type, item.vals)

\* C12: FindAll on a slice of one element returns 1 exactly when Find on a
\* pointer to that element returns true and 0 exactly when it returns false,
\* and leaves in the element what Find leaves in the struct; stated for
\* every Find against the FindAll of the same input and value, and for
\* every FindAll of one element against the Find of it.
C12_FindAllOfOneIsFind ==
    /\ (op = "Find" /\ ~panicked)
          => LET all == FindAllResult(re, s, OneElement(values0.type, values0.vals))
             IN /\ ~all.panic
                /\ all.n = 1 <=> found
                /\ all.n = 0 <=> ~found
                /\ all.slice.items[1].vals = values.vals
    /\ (op = "FindAll" /\ ~panicked /\ Capacity = 1 /\ ~valuesSlice0.items[1].nil)
          => LET one == FindResult(re, s, PointerTo(valuesSlice0.type, valuesSlice0.items[1]))
             IN /\ ~one.panic
                /\ n = 1 <=> one.found
                /\ n = 0 <=> ~one.found
                /\ valuesSlice.items[1].vals = one.values.vals

\* FindAll on one pre-populated element, on an input with more than one
\* match, sets a field from the first of them.
C12_Witness ==
    /\ op = "FindAll" /\ ~panicked /\ Capacity = 1 /\ n = 1
    /\ ~valuesSlice0.items[1].nil
    /\ Len(EveryMatch(re, s)) > 1
    /\ \E i \in FieldIndexes :
          /\ valuesSlice0.items[1].vals[i] = Default
          /\ valuesSlice.items[1].vals[i] \notin {<<>>, Default}
    /\ FindResult(re, s, PointerTo(valuesSlice0.type, valuesSlice0.items[1])).found

\* The finished call of goroutine c returned, and left in its output, what
\* the same call does when it runs alone.
AsAlone(c) ==
    LET call == callers[c]
    IN IF call.op = "Find"
       THEN LET alone == FindResult(re, call.s, call.arg)
            IN /\ call.panicked = alone.panic
               /\ call.found = alone.found
               /\ call.items[1].vals = alone.values.vals
       ELSE LET alone == FindAllResult(re, call.s, call.arg)
            IN /\ call.panicked = alone.panic
               /\ call.n = alone.n
               /\ call.items = alone.slice.items

\* C13: while goroutines call Find and FindAll the matcher stays what
\* Compile returned (compiled pattern, wrapped struct, field-to-group
\* index), and however the steps of the calls interleave, every finished
\* call has returned and left in its own output what it does when run alone.
C13_ConcurrentCallsAsAlone ==
    (\E c \in Callers : callers[c].pc # "idle")
        => /\ re = CompileResult(tmpl, schema).re
           /\ \A c \in Callers : callers[c].pc = "done" => AsAlone(c)

\* Two calls on different inputs have finished, each having taken steps
\* while the other was under way, and both have set a field.
C13_Witness ==
    /\ \A c \in Callers :
          /\ callers[c].pc = "done" /\ callers[c].overlapped
          /\ \E j \in 1..Len(callers[c].items) :
                /\ ~callers[c].items[j].nil
                /\ \E i \in FieldIndexes : callers[c].items[j].vals[i] \notin {<<>>, Default}
    /\ callers["g1"].op = "Find" /\ callers["g2"].op = "FindAll"
    /\ callers["g1"].s # callers["g2"].s
    /\ callers["g1"].items[1].vals # callers["g2"].items[1].vals

\* The capture groups of the composite pattern as the engine numbers them:
\* the p-th opening parenthesis is group p.
GroupOpenings(r) == {j \in 1..Len(r.expr) : r.expr[j].k = "open"}

GroupNumber(r, j) == Cardinality({m \in GroupOpenings(r) : m <= j})

PositionsNamed(r, name) ==
    {GroupNumber(r, j) : j \in {m \in GroupOpenings(r) : r.expr[m].v = name}}

FieldNames(v) == {FieldsOf(v.type)[i].name : i \in 1..NumField(v)}

StrictlyAscending(seq) == \A k, l \in 1..Len(seq) : k < l => seq[k] < seq[l]

\* C14: after a successful Compile each field's index list holds exactly
\* the numbers of the groups named after the field, strictly ascending; the
\* index has no list but those of fields, no list holds 0 or the number of
\* an unnamed group or of a group named after no field, though these groups
\* are numbered too, and the lists of two fields are disjoint.
C14_IndexListsGroupPositions ==
    (Compiling /\ ~panicked /\ err = NoError)
        => LET index == re.submatchIndicesByFieldName
               foreign == {GroupNumber(re, j) :
                              j \in {m \in GroupOpenings(re) :
                                        re.expr[m].v \notin FieldNames(schema)}}
           IN /\ DOMAIN index \subseteq FieldNames(schema)
              /\ NumSubexp(re.pattern) = Cardinality(GroupOpenings(re))
              /\ \A field \in FieldNames(schema) :
                    /\ Range(MapGet(index, field)) = PositionsNamed(re, field)
                    /\ StrictlyAscending(MapGet(index, field))
              /\ \A field \in DOMAIN index :
                    /\ 0 \notin Range(index[field])
                    /\ Range(index[field]) \cap foreign = {}
                    /\ \A other \in DOMAIN index \ {field} :
                          Range(index[field]) \cap Range(index[other]) = {}

\* A compiled pattern with an unnamed group and a group named after no
\* field before the groups of the fields, one field holding two positions.
C14_Witness ==
    /\ op = "Compile" /\ err = NoError /\ ~re.nil
    /\ \E j, m \in GroupOpenings(re) :
          /\ re.expr[j].v = "" /\ re.expr[m].v \notin FieldNames(schema) \cup {""}
          /\ \E field \in DOMAIN re.submatchIndicesByFieldName :
                /\ Len(re.submatchIndicesByFieldName[field]) = 2
                /\ re.submatchIndicesByFieldName[field][1] < GroupNumber(re, j)
                /\ re.submatchIndicesByFieldName[field][2] > GroupNumber(re, m)

\* The positions of the field looked up, and those of them beyond the end
\* of the submatches.
LookupPositions == MapGet(re.submatchIndicesByFieldName, lookup.field)

OutOfBounds == {p \in Range(LookupPositions) : p >= Len(lookup.submatches)}

\* The submatch at the first position of the list, in the order of the
\* list, that is within the submatches and holds a non-empty one.
FirstPresentInBounds ==
    LET present == {k \in 1..Len(LookupPositions) :
                       /\ LookupPositions[k] < Len(lookup.submatches)
                       /\ lookup.submatches[LookupPositions[k] + 1] # <<>>}
    IN IF present = {} THEN <<>>
       ELSE lookup.submatches[LookupPositions[LeastOf(present)] + 1]

=============================================================================
